---- MODULE Spec2Model ----
(***************************************************************************)
(* Model of the preference-data pipeline of rhythmoji-generator            *)
(* (update-pref-data script): credit splitting, name normalisation, album  *)
(* uniqueness and artist derivation.                                       *)
(*                                                                         *)
(* Strings are sequences of one-character strings.  An absent, null or     *)
(* empty string is the empty sequence wherever the code only tests         *)
(* truthiness.  The en dash of the source's dash class is written "~".     *)
(***************************************************************************)
EXTENDS Integers, Sequences, FiniteSets, TLC

VARIABLES
  pc,          \* position of the running script
  songs,       \* updateAppleTopSongs: songs mapped from the charts feed
  uniqueSongs, \* updateAppleTopSongs: songs kept by the album-uniqueness pass
  inputSongs,  \* the enriched songs the album-uniqueness pass was given
  topSongsFile,\* songs array last written to top_songs_us.json
  allArtists,  \* updateAppleTopSongs: derived artists {name, image_url}
  raw,         \* argument of the pure function under check
  out,         \* its result
  mode,        \* main: process.argv[2] || 'all', given when the script is launched
  disk,        \* the files of pref_data ("archive") and public/pref_data ("public")
  now,         \* the wall clock read by nowIso; it advances between runs
  runs,        \* launches of the script so far
  enriched,    \* enrichTopArtistImagesWikidata: artists pushed so far
  lookup,      \* knowledge-graph requests answered since the last pause
  kg,          \* knowledge-graph requests of this run: none yet, all failed, some answered
  seedIdx,     \* buildSongsCatalogFromItunes: seeds done so far
  catalogSeen, \* buildSongsCatalogFromItunes: seen
  catalogOut,  \* buildSongsCatalogFromItunes: out
  offset,      \* fetchWikidataCatalog: offset
  wdArtists,   \* fetchWikidataCatalog: artists
  written,     \* files written by this run
  writes,      \* outcome of each pair of writes of this run, in order
  pages,       \* fetchWikidataCatalog: offset, limit and row count of each page requested
  prev         \* what the run that the current one repeats fetched, wrote and left

chartVars == <<songs, uniqueSongs, inputSongs, topSongsFile, allArtists>>

runVars == <<mode, disk, now, runs, enriched, lookup, kg, seedIdx, catalogSeen,
             catalogOut, offset, wdArtists, written, writes, pages, prev>>

vars == <<pc, songs, uniqueSongs, inputSongs, topSongsFile, allArtists, raw, out,
          mode, disk, now, runs, enriched, lookup, kg, seedIdx, catalogSeen,
          catalogOut, offset, wdArtists, written, writes, pages, prev>>

(***************************************************************************)
(* Characters                                                              *)
(***************************************************************************)
Space == " "
Tab == "\t"
EnDash == "~"
Pipe == "|"

\* JavaScript \s and String.prototype.trim whitespace (two representatives)
WS == {Space, Tab}

\* the class [-–] of the token clean-up
Dashes == {"-", EnDash}

UpperLetters == <<"A","B","C","D","E","F","G","H","I","J","K","L","M",
                  "N","O","P","Q","R","S","T","U","V","W","X","Y","Z">>
LowerLetters == <<"a","b","c","d","e","f","g","h","i","j","k","l","m",
                  "n","o","p","q","r","s","t","u","v","w","x","y","z">>

\* String.prototype.toLowerCase on one character
LowerChar(c) ==
  IF \E i \in 1..26 : UpperLetters[i] = c
  THEN LowerLetters[CHOOSE i \in 1..26 : UpperLetters[i] = c]
  ELSE c

\* String.prototype.toLowerCase
toLowerCase(s) == [i \in 1..Len(s) |-> LowerChar(s[i])]

(***************************************************************************)
(* Regular-expression machinery: a pattern is given by the function that   *)
(* maps a start index to the index just after its match there (0: no       *)
(* match); String.prototype.replace with the g flag scans left to right    *)
(* and resumes after each match.                                           *)
(***************************************************************************)
Min(S) == CHOOSE x \in S : \A y \in S : x <= y

\* index of the first non-whitespace character at or after i (Len+1 if none)
WsRunEnd(s, i) ==
  Min({j \in i..(Len(s) + 1) : j = Len(s) + 1 \/ s[j] \notin WS})

\* literal lit (given in lower case when ci) stands at index j of s
LitAt(s, j, lit, ci) ==
  /\ j >= 1
  /\ j + Len(lit) - 1 <= Len(s)
  /\ \A k \in 1..Len(lit) :
       (IF ci THEN LowerChar(s[j + k - 1]) ELSE s[j + k - 1]) = lit[k]

\* /\s+lit\s+/ at index i
MatchWsLitWs(s, i, lit, ci) ==
  IF s[i] \notin WS THEN 0
  ELSE LET j == WsRunEnd(s, i)
           k == j + Len(lit)
       IN IF LitAt(s, j, lit, ci) /\ k <= Len(s) /\ s[k] \in WS
          THEN WsRunEnd(s, k)
          ELSE 0

\* /\s*lit\s*/ at index i
MatchOptWsLitOptWs(s, i, lit, ci) ==
  LET j == WsRunEnd(s, i)
  IN IF LitAt(s, j, lit, ci) THEN WsRunEnd(s, j + Len(lit)) ELSE 0

\* MatchFeat with the optional dot forgotten: /\s*feat\s*/i
MatchFeatNoDot(s, i) ==
  LET j == WsRunEnd(s, i)
  IN IF LitAt(s, j, <<"f","e","a","t">>, TRUE) THEN WsRunEnd(s, j + 4) ELSE 0

\* /\s*feat\.?\s*/i at index i
MatchFeat(s, i) ==
  LET j == WsRunEnd(s, i)
      k == j + 4
      k2 == IF k <= Len(s) /\ s[k] = "." THEN k + 1 ELSE k
  IN IF LitAt(s, j, <<"f","e","a","t">>, TRUE) THEN WsRunEnd(s, k2) ELSE 0

\* /\(.*?feat\.?[^)]*\)/i at index i: from an opening parenthesis, lazily to
\* the first "feat" after it, then up to the first closing parenthesis
MatchParenFeat(s, i) ==
  IF s[i] # "(" THEN 0
  ELSE LET starts == {j \in (i + 1)..Len(s) :
                        /\ LitAt(s, j, <<"f","e","a","t">>, TRUE)
                        /\ \E k \in (j + 4)..Len(s) : s[k] = ")"}
       IN IF starts = {} THEN 0
          ELSE LET j == Min(starts)
               IN Min({k \in (j + 4)..Len(s) : s[k] = ")"}) + 1

RECURSIVE Rebuild(_, _, _, _)
\* the scan of replace(/.../g, rep): ends[i] is the match end at index i
Rebuild(s, ends, rep, i) ==
  IF i > Len(s) THEN <<>>
  ELSE IF ends[i] # 0 THEN rep \o Rebuild(s, ends, rep, ends[i])
  ELSE <<s[i]>> \o Rebuild(s, ends, rep, i + 1)

ReplaceWsLitWs(s, lit, ci) ==
  Rebuild(s, [i \in 1..Len(s) |-> MatchWsLitWs(s, i, lit, ci)], <<Pipe>>, 1)

ReplaceOptWsLitOptWs(s, lit, ci) ==
  Rebuild(s, [i \in 1..Len(s) |-> MatchOptWsLitOptWs(s, i, lit, ci)], <<Pipe>>, 1)

ReplaceFeat(s) ==
  Rebuild(s, [i \in 1..Len(s) |-> MatchFeat(s, i)], <<Pipe>>, 1)

ReplaceParenFeat(s) ==
  Rebuild(s, [i \in 1..Len(s) |-> MatchParenFeat(s, i)], <<>>, 1)

\* String.prototype.trim
trim(s) ==
  LET keep == {i \in 1..Len(s) : s[i] \notin WS}
  IN IF keep = {} THEN <<>>
     ELSE SubSeq(s, Min(keep), CHOOSE x \in keep : \A y \in keep : y <= x)

\* replace(/^[-–]+/, '').replace(/[-–]+$/, '')
StripDashes(s) ==
  LET keep == {i \in 1..Len(s) : s[i] \notin Dashes}
  IN IF keep = {} THEN <<>>
     ELSE SubSeq(s, Min(keep), CHOOSE x \in keep : \A y \in keep : y <= x)

RECURSIVE SplitFrom(_, _, _)
\* String.prototype.split('|'): the segments of s from index i on, cur being
\* the segment collected so far
SplitFrom(s, i, cur) ==
  IF i > Len(s) THEN <<cur>>
  ELSE IF s[i] = Pipe THEN <<cur>> \o SplitFrom(s, i + 1, <<>>)
  ELSE SplitFrom(s, i + 1, Append(cur, s[i]))

split(s) == SplitFrom(s, 1, <<>>)

\* the separator normalisation chain of splitArtistCredits
NormalizeSeparators(s0) ==
  LET s1 == ReplaceWsLitWs(s0, <<"&">>, FALSE)
      s2 == ReplaceOptWsLitOptWs(s1, <<",">>, FALSE)
      s3 == ReplaceWsLitWs(s2, <<"x">>, TRUE)
      s4 == ReplaceWsLitWs(s3, <<"X">>, FALSE)
      s5 == ReplaceWsLitWs(s4, <<"w","i","t","h">>, TRUE)
      s6 == ReplaceWsLitWs(s5, <<"a","n","d">>, TRUE)
      s7 == ReplaceFeat(s6)
      s8 == ReplaceOptWsLitOptWs(s7, <<"f","e","a","t","u","r","i","n","g">>, TRUE)
  IN [i \in 1..Len(s8) |-> IF s8[i] = "/" THEN Pipe ELSE s8[i]]

\* splitArtistCredits(raw)
splitArtistCredits(r) ==
  IF r = <<>> THEN <<>>
  ELSE LET s == NormalizeSeparators(ReplaceParenFeat(r))
           trimmed == [i \in 1..Len(split(s)) |-> trim(split(s)[i])]
           kept == SelectSeq(trimmed, LAMBDA t : t # <<>>)
       IN [i \in 1..Len(kept) |-> trim(StripDashes(kept[i]))]

\* normalizeArtistName without the whitespace collapse
normalizeArtistNameTrimOnly(name) == trim(name)

\* normalizeArtistName(name): trim, then collapse each whitespace run to " "
normalizeArtistName(name) ==
  LET t == trim(name)
  IN Rebuild(t, [i \in 1..Len(t) |->
                   IF t[i] \in WS THEN WsRunEnd(t, i) ELSE 0], <<Space>>, 1)

\* slug with /\s/g in place of /\s+/g: one hyphen per whitespace character
slugPerChar(s) ==
  LET t == trim(toLowerCase(s))
  IN [i \in 1..Len(t) |-> IF t[i] \in WS THEN "-" ELSE t[i]]

\* slug(s) of the preferences screen: lower-case, trim, whitespace runs to "-"
slug(s) ==
  LET t == trim(toLowerCase(s))
  IN Rebuild(t, [i \in 1..Len(t) |->
                   IF t[i] \in WS THEN WsRunEnd(t, i) ELSE 0], <<"-">>, 1)

(***************************************************************************)
(* Upstream responses the charts pipeline is run against                   *)
(***************************************************************************)
\* most songs in one charts feed response
MaxSongs == 3

\* a missing JSON property
Undefined == <<"undefined">>

\* artwork URLs: <<base, file name>>; <<>> is an absent or null URL
NoImage == <<>>

cA == <<"A">>
cB == <<"B">>
cAandB == <<"A", " ", "&", " ", "B">>
cTaylorSwift == <<"T","a","y","l","o","r"," ","S","w","i","f","t">>
cTaylorSwiftLoose == <<"t","a","y","l","o","r"," "," "," ","s","w","i","f","t">>
cAlb == <<"A","l","b">>
cALB == <<"A","L","B">>

\* entries of feed.results: id, name, artistName, artworkUrl100 (url, unused
\* after the mapping, is left out)
FeedEntries ==
  { [id |-> <<"1">>, name |-> <<"X">>, artistName |-> cAandB, artworkUrl100 |-> NoImage],
    [id |-> <<"2">>, name |-> <<"Y">>, artistName |-> cA,
     artworkUrl100 |-> <<"art2", "100x100bb.jpg">>],
    [id |-> <<"3">>, name |-> <<"Z">>, artistName |-> cA,
     artworkUrl100 |-> <<"art3", "cover.png">>],
    [id |-> <<"4">>, name |-> <<"T">>, artistName |-> cTaylorSwift,
     artworkUrl100 |-> <<"art4", "100x100bb.jpg">>],
    [id |-> Undefined, name |-> <<"5">>, artistName |-> cTaylorSwiftLoose,
     artworkUrl100 |-> NoImage],
    [id |-> <<"2">>, name |-> <<"W">>, artistName |-> <<"B", ",", "a">>,
     artworkUrl100 |-> <<"art6", "100x100bb.jpg">>] }

RECURSIVE SeqsUpTo(_, _)
\* the sequences over S of length at most n
SeqsUpTo(S, n) ==
  IF n = 0 THEN {<<>>}
  ELSE LET shorter == SeqsUpTo(S, n - 1)
       IN shorter \cup {Append(q, e) : q \in {x \in shorter : Len(x) = n - 1}, e \in S}

Feeds == SeqsUpTo(FeedEntries, MaxSongs)

\* results of the iTunes lookup: trackId, collectionId (0: absent),
\* collectionName, artistName
LookupMaster ==
  << [trackId |-> 1, collectionId |-> 1, collectionName |-> cAlb, artistName |-> <<>>],
     [trackId |-> 1, collectionId |-> 1, collectionName |-> cAlb, artistName |-> cA],
     [trackId |-> 2, collectionId |-> 1, collectionName |-> cAlb, artistName |-> <<>>],
     [trackId |-> 3, collectionId |-> 2, collectionName |-> <<>>, artistName |-> <<>>],
     [trackId |-> 3, collectionId |-> 1, collectionName |-> cAlb, artistName |-> cB],
     [trackId |-> 4, collectionId |-> 0, collectionName |-> cALB, artistName |-> <<>>],
     [trackId |-> 0, collectionId |-> 5, collectionName |-> cAlb, artistName |-> cB] >>

RECURSIVE Pick(_, _, _)
\* the entries of q at the indices in K, in order, from index i on
Pick(q, K, i) ==
  IF i > Len(q) THEN <<>>
  ELSE (IF i \in K THEN <<q[i]>> ELSE <<>>) \o Pick(q, K, i + 1)

\* lookup responses: any selection of the master results, in order
LookupResponses == {Pick(LookupMaster, K, 1) : K \in SUBSET (1..Len(LookupMaster))}

Digit == <<"0","1","2","3","4","5","6","7","8","9">>

RECURSIVE NumToStr(_)
\* String(n) for a non-negative integer
NumToStr(n) ==
  IF n < 10 THEN <<Digit[n + 1]>>
  ELSE NumToStr(n \div 10) \o <<Digit[(n % 10) + 1]>>

(***************************************************************************)
(* updateAppleTopSongs                                                     *)
(***************************************************************************)
\* artworkUrl100?.replace(/100x100bb\.jpg$/, '200x200bb.jpg') || artworkUrl100 || null
Artwork200(u) ==
  IF u = NoImage THEN NoImage
  ELSE IF u[2] = "100x100bb.jpg" THEN <<u[1], "200x200bb.jpg">>
  ELSE u

\* the song mapped from one feed entry (id: String(r.id ?? r.url ?? r.name))
SongOfEntry(r) ==
  [id |-> IF r.id # Undefined THEN r.id ELSE r.name,
   title |-> r.name,
   artist |-> r.artistName,
   image |-> Artwork200(r.artworkUrl100)]

MapSongs(feed) == [i \in 1..Len(feed) |-> SongOfEntry(feed[i])]

NoExtra == [albumId |-> 0, album |-> <<>>, primaryArtist |-> <<>>]

\* String(it.trackId || it.collectionId || '')
LookupTid(it) ==
  IF it.trackId # 0 THEN NumToStr(it.trackId)
  ELSE IF it.collectionId # 0 THEN NumToStr(it.collectionId)
  ELSE <<>>

\* byId.get(id) || {}: the last lookup result stored under id
ExtraFor(items, id) ==
  LET hits == {i \in 1..Len(items) : LookupTid(items[i]) # <<>> /\ LookupTid(items[i]) = id}
  IN IF hits = {} THEN NoExtra
     ELSE LET it == items[CHOOSE i \in hits : \A k \in hits : k <= i]
          IN [albumId |-> it.collectionId,
              album |-> it.collectionName,
              primaryArtist |-> it.artistName]

\* songsEnriched: each song with albumId, album and primaryArtist
EnrichSongs(ss, items) ==
  [i \in 1..Len(ss) |->
     LET extra == ExtraFor(items, ss[i].id)
     IN [id |-> ss[i].id, title |-> ss[i].title, artist |-> ss[i].artist,
         image |-> ss[i].image,
         albumId |-> extra.albumId,
         album |-> extra.album,
         primaryArtist |-> IF extra.primaryArtist # <<>> THEN extra.primaryArtist
                           ELSE ss[i].artist]]

\* artistKey of the album-uniqueness pass
ArtistKey(s) ==
  toLowerCase(IF s.primaryArtist # <<>> THEN s.primaryArtist ELSE s.artist)

\* the key without the prefix that names its kind
AlbumKeyBare(s) ==
  IF s.albumId # 0 THEN NumToStr(s.albumId)
  ELSE IF s.album # <<>> THEN toLowerCase(s.album)
  ELSE s.id

\* the key without the fall-back to the song's id: null for every song
\* without album metadata
AlbumKeyNoTrack(s) ==
  IF s.albumId # 0 THEN <<"i","d",":">> \o NumToStr(s.albumId)
  ELSE IF s.album # <<>> THEN <<"n","a","m","e",":">> \o toLowerCase(s.album)
  ELSE <<>>

\* albumKey || `track:${s.id}`
AlbumKey(s) ==
  IF s.albumId # 0 THEN <<"i","d",":">> \o NumToStr(s.albumId)
  ELSE IF s.album # <<>> THEN <<"n","a","m","e",":">> \o toLowerCase(s.album)
  ELSE <<"t","r","a","c","k",":">> \o s.id

RECURSIVE UniquePass(_, _, _, _)
\* the loop over songsEnriched: seen is the set of <<artistKey, key>> pairs
\* recorded so far, acc the songs pushed so far
UniquePass(ss, i, seen, acc) ==
  IF i > Len(ss) THEN acc
  ELSE LET k == <<ArtistKey(ss[i]), AlbumKey(ss[i])>>
       IN IF k \in seen THEN UniquePass(ss, i + 1, seen, acc)
          ELSE UniquePass(ss, i + 1, seen \cup {k}, Append(acc, ss[i]))

\* the pass with seenSet.add forgotten: nothing is ever dropped
UniqueSongsNothingSeen(ss) == ss

UniqueSongs(ss) == UniquePass(ss, 1, {}, <<>>)

\* the credits of the songs in scan order, each with its song's image
RECURSIVE CreditScan(_, _)
CreditScan(ss, i) ==
  IF i > Len(ss) THEN <<>>
  ELSE LET credits == splitArtistCredits(ss[i].artist)
       IN [k \in 1..Len(credits) |-> [credit |-> credits[k], image |-> ss[i].image]]
          \o CreditScan(ss, i + 1)

RECURSIVE DeriveLoop(_, _, _, _, _)
\* the loops over uniqueSongs and their credits: artistOrder, and
\* displayName and artistImage as functions on the keys set so far
DeriveLoop(scan, i, artistOrder, displayName, artistImage) ==
  IF i > Len(scan) THEN
    [k \in 1..Len(artistOrder) |->
       [name |-> displayName[artistOrder[k]],
        image_url |-> IF artistOrder[k] \in DOMAIN artistImage
                      THEN artistImage[artistOrder[k]] ELSE NoImage]]
  ELSE LET nameDisp == normalizeArtistName(scan[i].credit)
           norm == toLowerCase(nameDisp)
           isNew == norm \notin DOMAIN displayName
           bindImage == norm \notin DOMAIN artistImage /\ scan[i].image # NoImage
       IN IF norm = <<>> THEN DeriveLoop(scan, i + 1, artistOrder, displayName, artistImage)
          ELSE DeriveLoop(scan, i + 1,
                 IF isNew THEN Append(artistOrder, norm) ELSE artistOrder,
                 IF isNew THEN displayName @@ (norm :> nameDisp) ELSE displayName,
                 IF bindImage THEN artistImage @@ (norm :> scan[i].image) ELSE artistImage)

\* the derivation with the displayName.has check forgotten: one entry per credit
DeriveArtistsEveryCredit(ss) ==
  LET scan == SelectSeq(CreditScan(ss, 1),
                        LAMBDA e : normalizeArtistName(e.credit) # <<>>)
  IN [k \in 1..Len(scan) |->
        [name |-> normalizeArtistName(scan[k].credit), image_url |-> scan[k].image]]

\* allArtists of updateAppleTopSongs
DeriveArtists(ss) == DeriveLoop(CreditScan(ss, 1), 1, <<>>, <<>>, <<>>)

RECURSIVE LegacyDeriveLoop(_, _, _, _)
\* the root script's loop: seen keys and the artists pushed so far
LegacyDeriveLoop(scan, i, seen, acc) ==
  IF i > Len(scan) THEN acc
  ELSE LET norm == toLowerCase(normalizeArtistName(scan[i].credit))
       IN IF norm # <<>> /\ norm \notin seen
          THEN LegacyDeriveLoop(scan, i + 1, seen \cup {norm},
                 Append(acc, [name |-> normalizeArtistName(scan[i].credit),
                              image_url |-> scan[i].image]))
          ELSE LegacyDeriveLoop(scan, i + 1, seen, acc)

\* allArtists of the root script's updateAppleTopSongs
LegacyDeriveArtists(ss) == LegacyDeriveLoop(CreditScan(ss, 1), 1, {}, <<>>)

(***************************************************************************)
(* The scripts, one action per awaited step                                *)
(***************************************************************************)
\* top_songs_us.json has not been written
NoFile == <<[absent |-> TRUE]>>

\* OUT_DIR and PUBLIC_OUT_DIR
Dirs == {"archive", "public"}

ArtifactNames == {"top_songs_us", "top_artists_us", "artists_catalog", "songs_catalog"}

Files == Dirs \X ArtifactNames

\* a file that does not exist
Absent == [source |-> "absent", updated_at |-> 0, items |-> <<>>]

EmptyDisk == [f \in Files |-> Absent]

\* nowIso()
nowIso == now

\* the document an artifact is written as (country and count, which follow
\* from source and items, are left out)
Snapshot(source, items) == [source |-> source, updated_at |-> nowIso, items |-> items]

\* the two awaited fs.writeFile calls of an artifact: both succeed, the first
\* throws, or the second throws
WriteOutcomes == {"ok", "archive_fails", "public_fails"}

\* the two writes as a patch: the new items are appended to those of the file
WriteBothAppending(d, name, doc, outcome) ==
  LET Patched(f) == [doc EXCEPT !.items = d[f].items \o doc.items]
  IN IF outcome = "ok"
     THEN [d EXCEPT ![<<"archive", name>>] = Patched(<<"archive", name>>),
                    ![<<"public", name>>] = Patched(<<"public", name>>)]
     ELSE IF outcome = "public_fails"
          THEN [d EXCEPT ![<<"archive", name>>] = Patched(<<"archive", name>>)]
     ELSE d

\* the disk after the two writes of artifact name
WriteBoth(d, name, doc, outcome) ==
  IF outcome = "ok"
  THEN [d EXCEPT ![<<"archive", name>>] = doc, ![<<"public", name>>] = doc]
  ELSE IF outcome = "public_fails" THEN [d EXCEPT ![<<"archive", name>>] = doc]
  ELSE d

\* the files those writes wrote
WrittenBy(name, outcome) ==
  IF outcome = "ok" THEN {<<"archive", name>>, <<"public", name>>}
  ELSE IF outcome = "public_fails" THEN {<<"archive", name>>}
  ELSE {}

\* there was no previous run
NoPrev == [mode |-> "none", exit |-> "none", fetched |-> <<>>, written |-> {}, writes |-> <<>>,
           items |-> <<>>]

\* a freshly launched process on an empty disk, its mode among ms
RunInit(ms) ==
  /\ mode \in ms
  /\ disk = EmptyDisk
  /\ now = 1
  /\ runs = 1
  /\ enriched = <<>>
  /\ lookup = <<>>
  /\ kg = "none"
  /\ seedIdx = 0
  /\ catalogSeen = {}
  /\ catalogOut = <<>>
  /\ offset = 0
  /\ wdArtists = <<>>
  /\ written = {}
  /\ writes = <<>>
  /\ pages = <<>>
  /\ prev = NoPrev

Init ==
  /\ pc = "start"
  /\ songs = <<>>
  /\ uniqueSongs = <<>>
  /\ inputSongs = <<>>
  /\ topSongsFile = NoFile
  /\ allArtists = <<>>
  /\ raw = <<>>
  /\ out = <<>>
  /\ RunInit({"all"})

\* await fetchJson(APPLE_URL) and the mapping of feed.results to songs
FetchChartsFrom(feeds) ==
  /\ pc = "start"
  /\ \E feed \in feeds : songs' = MapSongs(feed)
  /\ pc' = "lookup"
  /\ UNCHANGED <<uniqueSongs, inputSongs, topSongsFile, allArtists, raw, out>>
  /\ UNCHANGED runVars

FetchCharts == FetchChartsFrom(Feeds)

\* fetchJson(APPLE_URL) throws (network error, non-2xx status, body that is
\* not JSON): updateAppleTopSongs and main reject, the runner exits with 1
ChartsFetchFails ==
  /\ pc = "start"
  /\ pc' = "error_charts_fetch"
  /\ UNCHANGED <<chartVars, raw, out, runVars>>

\* songsEnriched and the album-uniqueness pass, given the lookup's results
AfterLookup(items) ==
  /\ inputSongs' = EnrichSongs(songs, items)
  /\ uniqueSongs' = UniqueSongs(EnrichSongs(songs, items))

\* fetchJson(lookupUrl) throws inside the try/catch: byId stays empty
LookupThrows == pc = "lookup" /\ AfterLookup(<<>>)

\* await fetchJson(lookupUrl) inside try/catch, then songsEnriched and the
\* album-uniqueness pass
LookupAlbumsFrom(responses) ==
  /\ pc = "lookup"
  /\ \/ \E resp \in responses : AfterLookup(resp)
     \/ LookupThrows
  /\ pc' = "write_top_songs"
  /\ UNCHANGED <<songs, topSongsFile, allArtists, raw, out>>
  /\ UNCHANGED runVars

LookupAlbums == LookupAlbumsFrom(LookupResponses)

\* the two writes of top_songs_us.json, then the derivation of allArtists;
\* a write that throws ends the run with that error
WriteTopSongs ==
  /\ pc = "write_top_songs"
  /\ \E outcome \in WriteOutcomes :
       /\ disk' = WriteBoth(disk, "top_songs_us",
                            Snapshot("apple_music_rss", uniqueSongs), outcome)
       /\ written' = written \cup WrittenBy("top_songs_us", outcome)
       /\ writes' = Append(writes, outcome)
       /\ topSongsFile' = IF outcome = "archive_fails" THEN topSongsFile ELSE uniqueSongs
       /\ allArtists' = IF outcome = "ok" THEN DeriveArtists(uniqueSongs) ELSE allArtists
       /\ pc' = IF outcome = "ok" THEN "enrich" ELSE "error_write_top_songs"
  /\ UNCHANGED <<songs, uniqueSongs, inputSongs, raw, out>>
  /\ UNCHANGED <<mode, now, runs, enriched, lookup, kg, seedIdx, catalogSeen,
                 catalogOut, offset, wdArtists, pages, prev>>

\* root script: fetch, and the mapping of feed.results to songs
LegacyFetchCharts ==
  /\ pc = "start"
  /\ \E feed \in Feeds : songs' = MapSongs(feed)
  /\ pc' = "legacy_write_top_songs"
  /\ UNCHANGED <<uniqueSongs, inputSongs, topSongsFile, allArtists, raw, out>>
  /\ UNCHANGED runVars

\* root script: the two writes of top_songs_us.json (all songs), then the
\* derivation of allArtists
LegacyWriteTopSongs ==
  /\ pc = "legacy_write_top_songs"
  /\ topSongsFile' = songs
  /\ allArtists' = LegacyDeriveArtists(songs)
  /\ pc' = "legacy_write_top_artists"
  /\ UNCHANGED <<songs, uniqueSongs, inputSongs, raw, out>>
  /\ UNCHANGED runVars

(***************************************************************************)
(* main and the rest of the run: image enrichment, the top-artists and     *)
(* catalog writes, the song-search catalog and the Wikidata catalog.       *)
(* Upstream responses are drawn from small sets.                           *)
(***************************************************************************)
\* most launches of the script in one behaviour
MaxRuns == 2

\* seeds of buildSongsCatalogFromItunes (36 in the source)
NumSeeds == 2

\* maxRecords and chunkSize of fetchWikidataCatalog (20000 and 5000 in the source)
MaxRecords == 2
ChunkSize == 2

\* allArtists.slice(0, 10) and allArtists.slice(0, 300)
TopArtistsN == 10
CatalogN == 300

Modes == {"apple", "wikidata", "all"}

cAspaceB == <<"A", " ", "B">>
cAdashB == <<"a", "-", "b">>

\* a charts feed with two entries of the same id, a name that is eligible for
\* enrichment, a name that is not and has no image
ChartsFeed ==
  << [id |-> <<"1">>, name |-> <<"X">>, artistName |-> cAspaceB,
      artworkUrl100 |-> <<"art1", "100x100bb.jpg">>],
     [id |-> <<"1">>, name |-> <<"Y">>, artistName |-> cAdashB,
      artworkUrl100 |-> <<"art2", "cover.png">>],
     [id |-> <<"3">>, name |-> <<"Z">>, artistName |-> <<"Q">>,
      artworkUrl100 |-> NoImage] >>

\* a charts feed with two songs of one artist
SameArtistFeed ==
  << [id |-> <<"5">>, name |-> <<"V">>, artistName |-> <<"Q">>, artworkUrl100 |-> NoImage],
     [id |-> <<"6">>, name |-> <<"W">>, artistName |-> <<"Q">>, artworkUrl100 |-> NoImage] >>

\* the charts feeds of the runs: no results (also what a payload without
\* feed.results is taken for), and the two feeds above
RunFeeds == { <<>>, ChartsFeed, SameArtistFeed }

\* the charts feed of the runs that are compared with the run before them
RerunFeeds == { ChartsFeed }

\* lookup responses of the runs: no results, and the two songs of
\* SameArtistFeed on one album
RunLookups ==
  { <<>>,
    << [trackId |-> 5, collectionId |-> 9, collectionName |-> cAlb, artistName |-> <<>>],
       [trackId |-> 6, collectionId |-> 9, collectionName |-> cAlb, artistName |-> <<>>] >> }

\* a response of a knowledge-graph or search service: the request throws or
\* is answered with a non-2xx status, it is answered without the datum asked
\* for, or it is answered with it
ResponseKinds == {"error", "empty", "data"}

\* knowledge-graph requests of the run so far, after one more response
KgAfter(kind) ==
  IF kind # "error" THEN "answered"
  ELSE IF kg = "answered" THEN "answered" ELSE "failed"

\* the URL built without the test for a missing file name
commonsFromFileNameUnguarded(fileName) == <<"commons">> \o fileName

\* commonsFromFileName(fileName)
commonsFromFileName(fileName) ==
  IF fileName = <<>> THEN NoImage ELSE <<"commons">> \o fileName

\* file names the image statements (P18) of the two lookups carry
PrimaryFile == <<"P.jpg">>
FallbackFile == <<"F.jpg">>

Slice(q, n) == SubSeq(q, 1, IF Len(q) < n THEN Len(q) ELSE n)

\* artists10 before enrichment
artists10 == Slice(allArtists, TopArtistsN)

\* the gate with the test for white space forgotten
EligibleLong(name) == Len(name) >= 3

\* eligible: name.length >= 3 && /\s/.test(name)
Eligible(name) == Len(name) >= 3 /\ \E i \in 1..Len(name) : name[i] \in WS

\* the push with the fall-back to the artist's own image forgotten
EnrichedImgOnly(a, img) == [name |-> a.name, image_url |-> img]

\* { ...a, image_url: img || a.image_url || null }
Enriched(a, img) ==
  [name |-> a.name, image_url |-> IF img # NoImage THEN img ELSE a.image_url]

\* main without the branch on the mode
MainAlwaysCharts ==
  /\ pc = "main"
  /\ pc' = "start"
  /\ UNCHANGED <<chartVars, raw, out, runVars>>

\* main: ensureDirs, then the branch on the mode
Main ==
  /\ pc = "main"
  /\ pc' = IF mode = "wikidata" THEN "wd_page" ELSE "start"
  /\ UNCHANGED <<chartVars, raw, out, runVars>>

\* enrichTopArtistImagesWikidata: the head of the loop for the next artist; an
\* artist that is not eligible is pushed with img = null
EnrichArtist ==
  /\ pc = "enrich"
  /\ Len(enriched) < Len(artists10)
  /\ LET a == artists10[Len(enriched) + 1]
     IN IF Eligible(a.name)
        THEN /\ pc' = "wd_primary"
             /\ UNCHANGED enriched
        ELSE /\ pc' = "enrich_pause"
             /\ enriched' = Append(enriched, Enriched(a, NoImage))
  /\ UNCHANGED <<chartVars, raw, out>>
  /\ UNCHANGED <<mode, disk, now, runs, lookup, kg, seedIdx, catalogSeen,
                 catalogOut, offset, wdArtists, written, writes, pages, prev>>

\* wikidataImageForName: the exact-label query; with a file the call returns,
\* otherwise (no binding, non-2xx, exception) it goes on to the fallback
PrimaryQuery ==
  /\ pc = "wd_primary"
  /\ \E kind \in ResponseKinds :
       /\ lookup' = Append(lookup, <<"primary", kind>>)
       /\ kg' = KgAfter(kind)
       /\ IF kind = "data"
          THEN /\ enriched' = Append(enriched,
                    Enriched(artists10[Len(enriched) + 1], commonsFromFileName(PrimaryFile)))
               /\ pc' = "enrich_pause"
          ELSE /\ pc' = "wd_search"
               /\ UNCHANGED enriched
  /\ UNCHANGED <<chartVars, raw, out>>
  /\ UNCHANGED <<mode, disk, now, runs, seedIdx, catalogSeen, catalogOut, offset,
                 wdArtists, written, writes, pages, prev>>

\* wikidataImageForName: wbsearchentities; without an id, or on an exception,
\* the call returns null
FallbackSearch ==
  /\ pc = "wd_search"
  /\ \E kind \in ResponseKinds :
       /\ lookup' = Append(lookup, <<"search", kind>>)
       /\ kg' = KgAfter(kind)
       /\ IF kind = "data"
          THEN /\ pc' = "wd_entity"
               /\ UNCHANGED enriched
          ELSE /\ enriched' = Append(enriched, Enriched(artists10[Len(enriched) + 1], NoImage))
               /\ pc' = "enrich_pause"
  /\ UNCHANGED <<chartVars, raw, out>>
  /\ UNCHANGED <<mode, disk, now, runs, seedIdx, catalogSeen, catalogOut, offset,
                 wdArtists, written, writes, pages, prev>>

\* wikidataImageForName: wbgetentities; the call returns the image of the P18
\* claim, or null without one or on an exception
FallbackEntity ==
  /\ pc = "wd_entity"
  /\ \E kind \in ResponseKinds :
       /\ lookup' = Append(lookup, <<"entity", kind>>)
       /\ kg' = KgAfter(kind)
       /\ enriched' = Append(enriched,
            Enriched(artists10[Len(enriched) + 1],
                     commonsFromFileName(IF kind = "data" THEN FallbackFile ELSE <<>>)))
       /\ pc' = "enrich_pause"
  /\ UNCHANGED <<chartVars, raw, out>>
  /\ UNCHANGED <<mode, disk, now, runs, seedIdx, catalogSeen, catalogOut, offset,
                 wdArtists, written, writes, pages, prev>>

\* enrichTopArtistImagesWikidata: the 300 ms pause that ends an iteration
EnrichPause ==
  /\ pc = "enrich_pause"
  /\ pc' = "enrich"
  /\ lookup' = <<>>
  /\ UNCHANGED <<chartVars, raw, out>>
  /\ UNCHANGED <<mode, disk, now, runs, enriched, kg, seedIdx, catalogSeen,
                 catalogOut, offset, wdArtists, written, writes, pages, prev>>

\* the loop is over: the two writes of top_artists_us.json
WriteTopArtists ==
  /\ pc = "enrich"
  /\ Len(enriched) = Len(artists10)
  /\ \E outcome \in WriteOutcomes :
       /\ disk' = WriteBoth(disk, "top_artists_us",
                            Snapshot("apple_music_rss", enriched), outcome)
       /\ written' = written \cup WrittenBy("top_artists_us", outcome)
       /\ writes' = Append(writes, outcome)
       /\ pc' = IF outcome = "ok" THEN "write_artists_catalog" ELSE "error_write_top_artists"
  /\ UNCHANGED <<chartVars, raw, out>>
  /\ UNCHANGED <<mode, now, runs, enriched, lookup, kg, seedIdx, catalogSeen,
                 catalogOut, offset, wdArtists, pages, prev>>

\* the two writes of the charts-derived artists_catalog.json
WriteArtistsCatalog ==
  /\ pc = "write_artists_catalog"
  /\ \E outcome \in WriteOutcomes :
       /\ disk' = WriteBoth(disk, "artists_catalog",
                            Snapshot("apple_music_rss", Slice(allArtists, CatalogN)), outcome)
       /\ written' = written \cup WrittenBy("artists_catalog", outcome)
       /\ writes' = Append(writes, outcome)
       /\ pc' = IF outcome = "ok" THEN "search_seed" ELSE "error_write_artists_catalog"
  /\ UNCHANGED <<chartVars, raw, out>>
  /\ UNCHANGED <<mode, now, runs, enriched, lookup, kg, seedIdx, catalogSeen,
                 catalogOut, offset, wdArtists, pages, prev>>

\* results of one iTunes search (0 and <<>>: absent)
SearchItems ==
  << [trackId |-> 7, collectionId |-> 1, artistId |-> 2, trackViewUrl |-> <<"u", "7">>,
      trackName |-> <<"T">>, artistName |-> cA,
      artworkUrl100 |-> <<"art7", "100x100bb.jpg">>],
     [trackId |-> 0, collectionId |-> 7, artistId |-> 2, trackViewUrl |-> <<>>,
      trackName |-> <<"C">>, artistName |-> cB, artworkUrl100 |-> NoImage],
     [trackId |-> 0, collectionId |-> 0, artistId |-> 0, trackViewUrl |-> <<"u", "8">>,
      trackName |-> <<"U">>, artistName |-> cA, artworkUrl100 |-> NoImage],
     [trackId |-> 0, collectionId |-> 0, artistId |-> 0, trackViewUrl |-> <<>>,
      trackName |-> <<"N">>, artistName |-> cB, artworkUrl100 |-> NoImage] >>

\* r.trackId || r.collectionId || r.artistId || r.trackViewUrl, as the value
\* the Set compares: a number or a string (<<>>: none)
SearchId(r) ==
  IF r.trackId # 0 THEN <<"number", NumToStr(r.trackId)>>
  ELSE IF r.collectionId # 0 THEN <<"number", NumToStr(r.collectionId)>>
  ELSE IF r.artistId # 0 THEN <<"number", NumToStr(r.artistId)>>
  ELSE IF r.trackViewUrl # <<>> THEN <<"string", r.trackViewUrl>>
  ELSE <<>>

RECURSIVE SearchLoop(_, _, _, _)
\* the loop over the items of one search response: <<seen, out>> after it
SearchLoop(items, i, seen, acc) ==
  IF i > Len(items) THEN <<seen, acc>>
  ELSE LET r == items[i]
           id == SearchId(r)
       IN IF id = <<>> \/ id \in seen THEN SearchLoop(items, i + 1, seen, acc)
          ELSE SearchLoop(items, i + 1, seen \cup {id},
                 Append(acc, [id |-> id[2], title |-> r.trackName, artist |-> r.artistName,
                              image |-> Artwork200(r.artworkUrl100)]))

\* buildSongsCatalogFromItunes: the search for one seed (a failed search is
\* skipped), the loop over its items and the pause
SearchSeed ==
  /\ pc = "search_seed"
  /\ seedIdx < NumSeeds
  /\ \/ LET after == SearchLoop(SearchItems, 1, catalogSeen, catalogOut)
        IN /\ catalogSeen' = after[1]
           /\ catalogOut' = after[2]
     \/ UNCHANGED <<catalogSeen, catalogOut>>
  /\ seedIdx' = seedIdx + 1
  /\ UNCHANGED <<pc, chartVars, raw, out>>
  /\ UNCHANGED <<mode, disk, now, runs, enriched, lookup, kg, offset, wdArtists,
                 written, writes, pages, prev>>

\* all seeds done: the two writes of songs_catalog.json, and back in main
WriteSongsCatalog ==
  /\ pc = "search_seed"
  /\ seedIdx = NumSeeds
  /\ \E outcome \in WriteOutcomes :
       /\ disk' = WriteBoth(disk, "songs_catalog",
                            Snapshot("itunes_search", catalogOut), outcome)
       /\ written' = written \cup WrittenBy("songs_catalog", outcome)
       /\ writes' = Append(writes, outcome)
       /\ pc' = IF outcome # "ok" THEN "error_write_songs_catalog"
                ELSE IF mode = "apple" THEN "exit_ok" ELSE "wd_page"
  /\ UNCHANGED <<chartVars, raw, out>>
  /\ UNCHANGED <<mode, now, runs, enriched, lookup, kg, seedIdx, catalogSeen,
                 catalogOut, offset, wdArtists, pages, prev>>

\* commonsThumbUrl(imageUrl): a Wikimedia URL becomes a Special:FilePath URL
commonsThumbUrl(imageUrl) ==
  IF imageUrl # NoImage /\ imageUrl[1] = "wikimedia" THEN <<"commons", imageUrl[2]>>
  ELSE imageUrl

\* rows of the catalog query: item id, label, image (aliases are left out)
WdRow1 == [item |-> <<"Q","1">>, itemLabel |-> <<"Q">>, image |-> <<"wikimedia", "W1.jpg">>]
WdRow2 == [item |-> <<"Q","2">>, itemLabel |-> <<"q">>, image |-> <<"other", "W2.jpg">>]
WdRow3 == [item |-> <<"Q","3">>, itemLabel |-> <<"A", "-", "B">>,
           image |-> <<"wikimedia", "W3.jpg">>]
WdRow4 == [item |-> <<"Q","4">>, itemLabel |-> cAspaceB, image |-> NoImage]
WdRow5 == [item |-> <<"Q","5">>, itemLabel |-> <<"Q", " ">>, image |-> <<"wikimedia", "W5.jpg">>]

\* pages the query service answers with
PageResponses == { <<>>, <<WdRow5>>, <<WdRow1, WdRow2, WdRow3, WdRow4>> }

\* the artists pushed for the rows of one page
PageArtists(rows) ==
  LET ok == SelectSeq(rows, LAMBDA b : b.item # <<>> /\ b.itemLabel # <<>>
                                        /\ commonsThumbUrl(b.image) # NoImage)
  IN [i \in 1..Len(ok) |->
        [id |-> ok[i].item, name |-> ok[i].itemLabel,
         image_url |-> commonsThumbUrl(ok[i].image)]]

\* the limit without the cap at the records still wanted
PageLimitChunk(o) == ChunkSize

\* Math.min(chunkSize, maxRecords - offset) of wikidataSparql's call
PageLimit(o) == IF ChunkSize < MaxRecords - o THEN ChunkSize ELSE MaxRecords - o

\* the failed page request with the artists fetched so far written out
\* before the error is thrown
PageFetchFailsAfterFlush ==
  /\ kg' = KgAfter("error")
  /\ pc' = "error_catalog_fetch"
  /\ disk' = WriteBoth(disk, "artists_catalog", Snapshot("wikidata", wdArtists), "ok")
  /\ written' = written \cup WrittenBy("artists_catalog", "ok")
  /\ writes' = Append(writes, "ok")
  /\ lookup' = Append(lookup, <<"page", "error">>)
  /\ pages' = Append(pages, [offset |-> offset, limit |-> PageLimit(offset), rows |-> 0])
  /\ UNCHANGED <<offset, wdArtists>>

\* the page request fails (fetch rejects, non-2xx status, body that is not
\* JSON): the exception leaves fetchWikidataCatalog, updateWikidataCatalog
\* and main
PageFetchFails ==
  /\ kg' = KgAfter("error")
  /\ pc' = "error_catalog_fetch"
  /\ lookup' = Append(lookup, <<"page", "error">>)
  /\ pages' = Append(pages, [offset |-> offset, limit |-> PageLimit(offset), rows |-> 0])
  /\ UNCHANGED <<offset, wdArtists, disk, written, writes>>

\* fetchWikidataCatalog: one page; a failed request throws, an empty page
\* ends the loop
FetchCatalogPage ==
  /\ pc = "wd_page"
  /\ offset < MaxRecords
  /\ \/ PageFetchFails
     \/ \E rows \in PageResponses :
          /\ kg' = KgAfter("data")
          /\ lookup' = Append(lookup, <<"page", IF rows = <<>> THEN "empty" ELSE "data">>)
          /\ pages' = Append(pages, [offset |-> offset, limit |-> PageLimit(offset),
                                     rows |-> Len(rows)])
          /\ IF rows = <<>>
             THEN /\ pc' = "write_wd_catalog"
                  /\ UNCHANGED <<offset, wdArtists>>
             ELSE /\ wdArtists' = wdArtists \o PageArtists(rows)
                  /\ offset' = offset + Len(rows)
                  /\ pc' = "wd_page_pause"
          /\ UNCHANGED <<disk, written, writes>>
  /\ UNCHANGED <<chartVars, raw, out>>
  /\ UNCHANGED <<mode, now, runs, enriched, seedIdx, catalogSeen,
                 catalogOut, prev>>

\* fetchWikidataCatalog: the 500 ms pause, then the loop condition
CatalogPause ==
  /\ pc = "wd_page_pause"
  /\ pc' = IF offset < MaxRecords THEN "wd_page" ELSE "write_wd_catalog"
  /\ lookup' = <<>>
  /\ UNCHANGED <<chartVars, raw, out>>
  /\ UNCHANGED <<mode, disk, now, runs, enriched, kg, seedIdx, catalogSeen,
                 catalogOut, offset, wdArtists, written, writes, pages, prev>>

\* the catalog written under the name of the song catalog
WriteWikidataCatalogAsSongs ==
  /\ pc = "write_wd_catalog"
  /\ \E outcome \in WriteOutcomes :
       /\ disk' = WriteBoth(disk, "songs_catalog", Snapshot("wikidata", wdArtists), outcome)
       /\ written' = written \cup WrittenBy("songs_catalog", outcome)
       /\ writes' = Append(writes, outcome)
       /\ pc' = IF outcome = "ok" THEN "merge_top" ELSE "error_write_wikidata_catalog"
  /\ UNCHANGED <<chartVars, raw, out>>
  /\ UNCHANGED <<mode, now, runs, enriched, lookup, kg, seedIdx, catalogSeen,
                 catalogOut, offset, wdArtists, pages, prev>>

\* updateWikidataCatalog: the two writes of the Wikidata artists_catalog.json
WriteWikidataCatalog ==
  /\ pc = "write_wd_catalog"
  /\ \E outcome \in WriteOutcomes :
       /\ disk' = WriteBoth(disk, "artists_catalog", Snapshot("wikidata", wdArtists), outcome)
       /\ written' = written \cup WrittenBy("artists_catalog", outcome)
       /\ writes' = Append(writes, outcome)
       /\ pc' = IF outcome = "ok" THEN "merge_top" ELSE "error_write_wikidata_catalog"
  /\ UNCHANGED <<chartVars, raw, out>>
  /\ UNCHANGED <<mode, now, runs, enriched, lookup, kg, seedIdx, catalogSeen,
                 catalogOut, offset, wdArtists, pages, prev>>

\* byName.get(key) of new Map(artists.map(...)): a later entry replaces an
\* earlier one with the same key
ByName(artists, key) ==
  LET hits == {i \in 1..Len(artists) : toLowerCase(artists[i].name) = key}
  IN IF hits = {} THEN NoImage
     ELSE artists[CHOOSE i \in hits : \A k \in hits : k <= i].image_url

\* the merge with the catalog's image taken before the artist's own
MergeImagesCatalogFirst(top, artists) ==
  [i \in 1..Len(top) |->
     [name |-> top[i].name,
      image_url |-> IF ByName(artists, toLowerCase(top[i].name)) # NoImage
                    THEN ByName(artists, toLowerCase(top[i].name))
                    ELSE top[i].image_url]]

\* top.artists.map(a => ({ ...a, image_url: a.image_url || byName.get(...) || null }))
MergeImages(top, artists) ==
  [i \in 1..Len(top) |->
     [name |-> top[i].name,
      image_url |-> IF top[i].image_url # NoImage THEN top[i].image_url
                    ELSE ByName(artists, toLowerCase(top[i].name))]]

\* updateWikidataCatalog: top_artists_us.json is read back, its images are
\* filled in and the document is written again; every exception is swallowed
MergeTopArtists ==
  /\ pc = "merge_top"
  /\ LET top == disk[<<"archive", "top_artists_us">>]
     IN IF top = Absent THEN UNCHANGED <<disk, written, writes>>
        ELSE \E outcome \in WriteOutcomes :
               /\ disk' = WriteBoth(disk, "top_artists_us",
                            [source |-> top.source, updated_at |-> top.updated_at,
                             items |-> MergeImages(top.items, wdArtists)], outcome)
               /\ written' = written \cup WrittenBy("top_artists_us", outcome)
               /\ writes' = Append(writes, outcome)
  /\ pc' = "exit_ok"
  /\ UNCHANGED <<chartVars, raw, out>>
  /\ UNCHANGED <<mode, now, runs, enriched, lookup, kg, seedIdx, catalogSeen,
                 catalogOut, offset, wdArtists, pages, prev>>

\* what a run fetched and computed from its responses
Fetched == <<songs, inputSongs, enriched, catalogOut, wdArtists>>

\* the items of every file
ItemsOf(d) == [f \in Files |-> d[f].items]

\* main has returned and the process ends with status 0, or main has rejected
\* and the runner has printed the error (of a fetch, of a write) and called
\* process.exit(1)
FetchErrors == {"error_charts_fetch", "error_catalog_fetch"}

WriteErrors == {"error_write_top_songs", "error_write_top_artists",
                "error_write_artists_catalog", "error_write_songs_catalog",
                "error_write_wikidata_catalog"}

ExitsNonZero == FetchErrors \cup WriteErrors

Exits == {"exit_ok"} \cup ExitsNonZero

\* the process has exited and the script is launched again, later: the disk
\* stays, everything in memory is gone
Launch(m, p) ==
  /\ pc \in Exits
  /\ runs < MaxRuns
  /\ runs' = runs + 1
  /\ now' = now + 1
  /\ mode' = m
  /\ prev' = p
  /\ pc' = "main"
  /\ songs' = <<>>
  /\ uniqueSongs' = <<>>
  /\ inputSongs' = <<>>
  /\ allArtists' = <<>>
  /\ enriched' = <<>>
  /\ lookup' = <<>>
  /\ kg' = "none"
  /\ seedIdx' = 0
  /\ catalogSeen' = {}
  /\ catalogOut' = <<>>
  /\ offset' = 0
  /\ wdArtists' = <<>>
  /\ written' = {}
  /\ writes' = <<>>
  /\ pages' = <<>>
  /\ UNCHANGED <<topSongsFile, raw, out, disk>>

\* launched again in any mode
Relaunch == \E m \in Modes : Launch(m, NoPrev)

\* the same command is run again; what the run just ended fetched, wrote and
\* left on disk is noted for comparison
Rerun ==
  Launch(mode, [mode |-> mode, exit |-> pc, fetched |-> Fetched, written |-> written,
               writes |-> writes,
                items |-> ItemsOf(disk)])

\* a process launched on an empty disk
InitMain ==
  /\ pc = "main"
  /\ songs = <<>>
  /\ uniqueSongs = <<>>
  /\ inputSongs = <<>>
  /\ topSongsFile = NoFile
  /\ allArtists = <<>>
  /\ raw = <<>>
  /\ out = <<>>
  /\ RunInit(Modes)

\* the steps of one run but the answered charts fetch
RunStepsAfterCharts ==
  \/ Main
  \/ ChartsFetchFails
  \/ LookupAlbumsFrom(RunLookups)
  \/ WriteTopSongs
  \/ EnrichArtist
  \/ PrimaryQuery
  \/ FallbackSearch
  \/ FallbackEntity
  \/ EnrichPause
  \/ WriteTopArtists
  \/ WriteArtistsCatalog
  \/ SearchSeed
  \/ WriteSongsCatalog
  \/ FetchCatalogPage
  \/ CatalogPause
  \/ WriteWikidataCatalog
  \/ MergeTopArtists

\* the steps of one run
RunSteps == FetchChartsFrom(RunFeeds) \/ RunStepsAfterCharts

RunNext == RunSteps \/ Relaunch

RerunNext == FetchChartsFrom(RerunFeeds) \/ RunStepsAfterCharts \/ Relaunch \/ Rerun

\* main, launched up to MaxRuns times in any modes
SpecRun == InitMain /\ [][RunNext]_vars

\* the runs with the steps of fetchWikidataCatalog (the request, whose promise
\* settles, and the timer of the pause) taken whenever they are enabled
SpecRunFair ==
  SpecRun /\ WF_vars(FetchCatalogPage) /\ WF_vars(CatalogPause)

\* main, launched up to MaxRuns times, the runs that repeat the command of
\* the run before them being compared with it
SpecRerun == InitMain /\ [][RerunNext]_vars

(***************************************************************************)
(* The pure functions of the name normaliser, applied to drawn inputs      *)
(***************************************************************************)
\* longest name drawn for the canonicalisation check
MaxNameLen == 4

NameAlphabet == {"A", "a", Space, Tab, "-"}

NameInputs == SeqsUpTo(NameAlphabet, MaxNameLen)

sArtistA == <<"A","r","t","i","s","t"," ","A">>
sArtistB == <<"A","r","t","i","s","t"," ","B">>
sBadBunny == <<"B","a","d"," ","B","u","n","n","y">>
sDrake == <<"D","r","a","k","e">>

\* names that contain no separator
PlainNames == {sArtistA, sArtistB, sBadBunny, sDrake, <<"Q">>}

\* the separators of the normalisation chain, in several letter cases
ListedSeparators ==
  { <<" ","&"," ">>, <<",">>, <<","," ">>,
    <<" ","x"," ">>, <<" ","X"," ">>,
    <<" ","w","i","t","h"," ">>, <<" ","W","i","t","h"," ">>,
    <<" ","a","n","d"," ">>, <<" ","A","N","D"," ">>,
    <<" ","f","e","a","t"," ">>, <<" ","F","e","a","t"," ">>,
    <<" ","f","e","a","t","."," ">>, <<" ","F","E","A","T","."," ">>,
    <<" ","f","e","a","t","u","r","i","n","g"," ">>,
    <<" ","F","e","a","t","u","r","i","n","g"," ">>,
    <<"/">> }

JoinedCredits == {n1 \o sep \o n2 : n1 \in PlainNames, sep \in ListedSeparators, n2 \in PlainNames}

\* parenthesised groups after a name: none, a non-featuring one, featuring ones
GroupsAfterFirst ==
  { <<>>, <<" ","(","L","i","v","e",")">>,
    <<" ","(","f","e","a","t","."," ","C",")">>,
    <<" ","(","w","i","t","h"," ","F","e","a","t"," ","C",")">> }
GroupsAfterSecond ==
  { <<>>, <<" ","(","R","m","x",")">>,
    <<" ","(","f","e","a","t","."," ","D",")">>,
    <<" ","(","F","E","A","T"," ","D",")">> }

ParenCredits ==
  {<<"A">> \o g1 \o <<" ","&"," ","B">> \o g2 : g1 \in GroupsAfterFirst, g2 \in GroupsAfterSecond}

\* credits with dashes and blanks around the names
DashCredits ==
  { <<"A"," ","&"," ","-">>, <<"-","A","-">>, <<"-"," ","-","A">>,
    <<" ","A"," ">>, <<"A",",","~","B","~">>, <<"A","-","B"," ","-",",","C">>,
    <<Tab,"A",","," "," ","B">>, <<"-">>, <<" ">> }

\* single names with the letters of a separator word inside a word
WordCredits ==
  { <<"D","e","f","e","a","t","e","r">>, <<"F","e","a","t","h","e","r">>,
    <<"B","r","a","n","d","y">>, <<"W","i","t","h","e","r","s">>,
    <<"M","a","x","x">>, <<" ","S","a","n","d","y"," ">> }

CreditInputs ==
  JoinedCredits \cup ParenCredits \cup DashCredits \cup WordCredits
    \cup {sArtistA \o <<" ","(","f","e","a","t","."," ">> \o sArtistB \o <<")">>, <<>>}

InitPure(inputs) ==
  /\ pc = "start"
  /\ songs = <<>>
  /\ uniqueSongs = <<>>
  /\ inputSongs = <<>>
  /\ topSongsFile = NoFile
  /\ allArtists = <<>>
  /\ raw \in inputs
  /\ out = <<>>
  /\ RunInit({"all"})

\* splitArtistCredits applied to the drawn credit
SplitCredits ==
  /\ pc = "start"
  /\ out' = splitArtistCredits(raw)
  /\ pc' = "done"
  /\ UNCHANGED <<songs, uniqueSongs, inputSongs, topSongsFile, allArtists, raw>>
  /\ UNCHANGED runVars

\* normalizeArtistName and slug applied to the drawn name
Canonicalize ==
  /\ pc = "start"
  /\ out' = << normalizeArtistName(raw), slug(normalizeArtistName(raw)), slug(raw) >>
  /\ pc' = "done"
  /\ UNCHANGED <<songs, uniqueSongs, inputSongs, topSongsFile, allArtists, raw>>
  /\ UNCHANGED runVars

SpecSplit == InitPure(CreditInputs) /\ [][SplitCredits]_vars

SpecCanon == InitPure(NameInputs) /\ [][Canonicalize]_vars

Next ==
  \/ FetchCharts
  \/ ChartsFetchFails
  \/ LookupAlbums
  \/ WriteTopSongs

LegacyNext ==
  \/ LegacyFetchCharts
  \/ LegacyWriteTopSongs

\* the webapp script (update-pref-data with album uniqueness and enrichment)
Spec == Init /\ [][Next]_vars

\* the root script
SpecLegacy == Init /\ [][LegacyNext]_vars

\* either script
SpecScripts == Init /\ [][Next \/ LegacyNext]_vars

(***************************************************************************)
(* Claims                                                                  *)
(***************************************************************************)
\* the album-uniqueness pass has run
Deduped == pc \in {"write_top_songs", "enrich"}

\* allArtists has been derived (by either script)
Derived == pc \in {"enrich", "legacy_write_top_artists"}

\* the songs the artists were derived from
DerivedFrom == IF pc = "enrich" THEN uniqueSongs ELSE songs

\* canonical id of the first token of a song's credit (<<>>: no token)
PrimaryArtistId(s) ==
  LET credits == splitArtistCredits(s.artist)
  IN IF credits = <<>> THEN <<>> ELSE slug(credits[1])

\* album key as the specification words it: albumId, else lower-cased album
\* name, else the song's own id
SpecAlbumKey(s) ==
  IF s.albumId # 0 THEN [kind |-> "albumId", val |-> NumToStr(s.albumId)]
  ELSE IF s.album # <<>> THEN [kind |-> "album", val |-> toLowerCase(s.album)]
  ELSE [kind |-> "song", val |-> s.id]

\* C1: album uniqueness -- for each artist a, the kept top-songs list holds at
\* most one song whose primary artist (canonical first credit token) is a and
\* whose album key is the same.
C1_AlbumUniqueness ==
  Deduped =>
    \A i, j \in 1..Len(uniqueSongs) :
      (i < j /\ PrimaryArtistId(uniqueSongs[i]) # <<>>
             /\ PrimaryArtistId(uniqueSongs[i]) = PrimaryArtistId(uniqueSongs[j]))
        => SpecAlbumKey(uniqueSongs[i]) # SpecAlbumKey(uniqueSongs[j])

\* the pass was given the three songs of the scenario: ids 1, 2, 3, titles
\* X, Y, Z, credits "A & B", "A", "A", albumIds al1, al1, al2
ScenarioInput ==
  /\ Len(inputSongs) = 3
  /\ [i \in 1..3 |-> inputSongs[i].id] = << <<"1">>, <<"2">>, <<"3">> >>
  /\ [i \in 1..3 |-> inputSongs[i].title] = << <<"X">>, <<"Y">>, <<"Z">> >>
  /\ [i \in 1..3 |-> inputSongs[i].artist] = <<cAandB, cA, cA>>
  /\ [i \in 1..3 |-> inputSongs[i].albumId] = <<1, 1, 2>>

\* C2: scenario -- for those three songs the kept songs are exactly [1, 3] and
\* the derived artists, in order, exactly ["A", "B"].
C2_Scenario ==
  (Deduped /\ ScenarioInput) =>
    /\ [i \in 1..Len(uniqueSongs) |-> uniqueSongs[i].id] = << <<"1">>, <<"3">> >>
    /\ pc = "enrich" =>
         [i \in 1..Len(allArtists) |-> allArtists[i].name] = <<cA, cB>>

\* two songs of the same artist and the same album: the pass tells artists
\* apart by their artist key (the lookup's artist name, else the credit,
\* lower-cased)
SameArtistAndAlbumId(s1, s2) ==
  /\ ArtistKey(s1) = ArtistKey(s2)
  /\ s1.albumId # 0
  /\ s1.albumId = s2.albumId

\* the input indices no earlier input song shares artist key and album key with
FirstOfKey ==
  {j \in 1..Len(inputSongs) :
     ~ \E i \in 1..(j - 1) :
         /\ ArtistKey(inputSongs[i]) = ArtistKey(inputSongs[j])
         /\ AlbumKey(inputSongs[i]) = AlbumKey(inputSongs[j])}

CreditKey(c) == toLowerCase(normalizeArtistName(c))

\* per song, its credits with their artist keys
CreditTable(ss) ==
  [i \in 1..Len(ss) |->
     LET credits == splitArtistCredits(ss[i].artist)
     IN [k \in 1..Len(credits) |-> [credit |-> credits[k], key |-> CreditKey(credits[k])]]]

\* the credit occurrences <<song index, credit index>> with a non-empty key
Occurrences(tab) ==
  UNION {{<<i, k>> : k \in {k \in DOMAIN tab[i] : tab[i][k].key # <<>>}} : i \in DOMAIN tab}

Earlier(o1, o2) == o1[1] < o2[1] \/ (o1[1] = o2[1] /\ o1[2] < o2[2])

\* the first occurrence, in scan order, of artist key key
FirstOcc(tab, key) ==
  LET same == {o \in Occurrences(tab) : tab[o[1]][o[2]].key = key}
  IN CHOOSE o \in same : \A o2 \in same : o2 = o \/ Earlier(o, o2)

\* C4: artist order preservation -- the derived artist list holds each distinct
\* artist key exactly once, in the order of first appearance in the scan of
\* the songs and of each song's credits.
C4_ArtistOrder ==
  Derived =>
    LET tab == CreditTable(DerivedFrom)
        keys == [n \in 1..Len(allArtists) |-> CreditKey(allArtists[n].name)]
        first == [n \in 1..Len(allArtists) |-> FirstOcc(tab, keys[n])]
    IN /\ \A n, m \in 1..Len(keys) : n # m => keys[n] # keys[m]
       /\ {keys[n] : n \in 1..Len(keys)} = {tab[o[1]][o[2]].key : o \in Occurrences(tab)}
       /\ \A n, m \in 1..Len(keys) : n < m => Earlier(first[n], first[m])

\* C4 witness: an artist credited more than once, after another artist
C4_Witness ==
  /\ Derived
  /\ Len(allArtists) >= 2
  /\ LET tab == CreditTable(DerivedFrom)
     IN \E o1, o2 \in Occurrences(tab) :
          /\ o1 # o2
          /\ tab[o1[1]][o1[2]].key = tab[o2[1]][o2[2]].key
          /\ tab[o1[1]][o1[2]].key = CreditKey(allArtists[2].name)

RECURSIVE WordsFrom(_, _, _)
\* the maximal whitespace-free runs of s from index i on
WordsFrom(s, i, cur) ==
  IF i > Len(s) THEN (IF cur = <<>> THEN <<>> ELSE <<cur>>)
  ELSE IF s[i] \in WS
       THEN (IF cur = <<>> THEN <<>> ELSE <<cur>>) \o WordsFrom(s, i + 1, <<>>)
       ELSE WordsFrom(s, i + 1, Append(cur, s[i]))

\* the lower-cased words of a name: equal for two names exactly when they
\* differ only in letter case and in the amount of whitespace
CaseSpaceClass(n) == WordsFrom(toLowerCase(n), 1, <<>>)

\* C5: de-duplication by canonical id -- credited names that differ only in
\* letter case and amount of whitespace ("Taylor Swift", "taylor   swift")
\* yield exactly one derived artist, carrying one canonical id.
C5_CanonicalDedup ==
  Derived =>
    LET tab == CreditTable(DerivedFrom)
        class == [n \in 1..Len(allArtists) |-> CaseSpaceClass(allArtists[n].name)]
    IN \A o1, o2 \in Occurrences(tab) :
         LET c1 == tab[o1[1]][o1[2]].credit
             c2 == tab[o2[1]][o2[2]].credit
         IN CaseSpaceClass(c1) = CaseSpaceClass(c2) =>
              /\ Cardinality({n \in 1..Len(allArtists) : class[n] = CaseSpaceClass(c1)}) = 1
              /\ \A n \in 1..Len(allArtists) :
                   class[n] = CaseSpaceClass(c1) =>
                     /\ slug(allArtists[n].name) = slug(c1)
                     /\ slug(allArtists[n].name) = slug(c2)

\* C5 witness: "Taylor Swift" and "taylor   swift" are both credited
C5_Witness ==
  /\ Derived
  /\ \E i, j \in 1..Len(DerivedFrom) :
       /\ splitArtistCredits(DerivedFrom[i].artist) = <<cTaylorSwift>>
       /\ splitArtistCredits(DerivedFrom[j].artist) = <<cTaylorSwiftLoose>>

\* C6: first-seen-wins merge -- each derived artist's name is the normalised
\* first credit token that produced its key, and its image is that of the
\* first crediting song whose image is non-null (null if there is none).
C6_FirstSeenWins ==
  Derived =>
    LET tab == CreditTable(DerivedFrom)
    IN \A n \in 1..Len(allArtists) :
         LET key == CreditKey(allArtists[n].name)
             first == FirstOcc(tab, key)
             withImage == {i \in 1..Len(DerivedFrom) :
                             /\ DerivedFrom[i].image # NoImage
                             /\ \E k \in DOMAIN tab[i] : tab[i][k].key = key}
         IN /\ key # <<>>
            /\ allArtists[n].name = normalizeArtistName(tab[first[1]][first[2]].credit)
            /\ allArtists[n].image_url =
                 IF withImage = {} THEN NoImage ELSE DerivedFrom[Min(withImage)].image

\* C6 on the webapp script alone
C6_FirstSeenWinsWebapp == pc = "enrich" => C6_FirstSeenWins

\* C7: idempotence of canonicalisation -- canonicalize(normalizeDisplay(s))
\* equals canonicalize(s) for every string s.
C7_CanonIdempotent ==
  pc = "done" => out[2] = out[3]

\* C7 witness: a name whose whitespace normalizeDisplay changes
C7_Witness ==
  /\ pc = "done"
  /\ out[1] # raw
  /\ \E i \in 1..Len(out[3]) : out[3][i] = "-" 
  /\ \E i \in 1..Len(raw) : raw[i] = Tab

sFeatDot == <<" ","f","e","a","t","."," ">>

\* C8 as stated: splitCredits("Artist A feat. Artist B") returns ["Artist A"].
C8_FeatDotRemoved ==
  (pc = "done" /\ raw = sArtistA \o sFeatDot \o sArtistB) => out = <<sArtistA>>

\* C8 as amended: splitCredits("Artist A feat. Artist B") returns
\* ["Artist A", "Artist B"]; only the parenthesised clause is removed entirely,
\* splitCredits("Artist A (feat. Artist B)") returning ["Artist A"].
C8_FeatDotSplits ==
  /\ (pc = "done" /\ raw = sArtistA \o sFeatDot \o sArtistB)
       => out = <<sArtistA, sArtistB>>
  /\ (pc = "done" /\ raw = sArtistA \o <<" ","(","f","e","a","t","."," ">> \o sArtistB \o <<")">>)
       => out = <<sArtistA>>

\* C8 witness: the unparenthesised credit has been split
C8_Witness ==
  pc = "done" /\ raw = sArtistA \o sFeatDot \o sArtistB /\ Len(out) = 2

\* C9: separator splitting -- two separator-free names joined by one listed
\* separator, in any letter case, are split into exactly those two names.
C9_SeparatorSplitting ==
  pc = "done" =>
    \A n1 \in PlainNames, n2 \in PlainNames, sep \in ListedSeparators :
      raw = n1 \o sep \o n2 => out = <<n1, n2>>

\* some token of the result contains character c
InResult(c) == \E k \in 1..Len(out) : \E i \in 1..Len(out[k]) : out[k][i] = c

\* the parenthesised group g is a featuring clause
IsFeaturingGroup(g) ==
  \E i \in 1..Len(g) : LitAt(g, i, <<"f","e","a","t">>, TRUE)

\* C10: parenthetical featuring removal -- exactly the featuring groups are
\* removed: the names inside them (C, D) are absent from the result, the
\* names outside (A, B) and the other groups are still present.
C10_ParenFeaturingOnly ==
  pc = "done" =>
    \A g1 \in GroupsAfterFirst, g2 \in GroupsAfterSecond :
      raw = <<"A">> \o g1 \o <<" ","&"," ","B">> \o g2 =>
        /\ InResult("A")
        /\ InResult("B")
        /\ IsFeaturingGroup(g1) => ~ InResult("C")
        /\ IsFeaturingGroup(g2) => ~ InResult("D")
        /\ (g1 # <<>> /\ ~ IsFeaturingGroup(g1)) => InResult("L")
        /\ (g2 # <<>> /\ ~ IsFeaturingGroup(g2)) => InResult("R")

\* C11: every token returned by splitCredits is non-empty, has no leading or
\* trailing whitespace and no leading or trailing dash character; an empty
\* credit yields the empty list.
C11_TokensClean ==
  pc = "done" =>
    /\ raw = <<>> => out = <<>>
    /\ \A k \in 1..Len(out) :
         /\ out[k] # <<>>
         /\ out[k][1] \notin WS \cup Dashes
         /\ out[k][Len(out[k])] \notin WS \cup Dashes

\* no two items of the sequence have the same id
DistinctIds(items) ==
  \A i, j \in 1..Len(items) : i # j => items[i].id # items[j].id

\* C12: at the time of write, no song snapshot (top songs, song catalog)
\* contains two items with the same id, whatever the upstream responses.
C12_NoDuplicateSongIds ==
  \A d \in Dirs :
    /\ DistinctIds(disk[<<d, "top_songs_us">>].items)
    /\ DistinctIds(disk[<<d, "songs_catalog">>].items)

\* C12 on the song catalog alone
C12_SongCatalogDistinct ==
  \A d \in Dirs : DistinctIds(disk[<<d, "songs_catalog">>].items)

\* no two items of the sequence have names with the same canonical id
DistinctCanonicalIds(items) ==
  \A i, j \in 1..Len(items) : i # j => slug(items[i].name) # slug(items[j].name)

\* C13: at the time of write, no artist snapshot (top artists, charts-derived
\* artist catalog, knowledge-graph artist catalog) contains two items whose
\* names have the same canonical id.
C13_NoDuplicateArtistIds ==
  \A d \in Dirs :
    /\ DistinctCanonicalIds(disk[<<d, "top_artists_us">>].items)
    /\ DistinctCanonicalIds(disk[<<d, "artists_catalog">>].items)

\* a run of the charts pipeline has ended and every knowledge-graph request
\* it made has thrown or failed, no file write having failed
DegradedRun ==
  /\ pc \in Exits
  /\ pc \notin WriteErrors
  /\ mode \in {"apple", "all"}
  /\ kg = "failed"

\* C14: graceful degradation -- in a run where every knowledge-graph request
\* throws or fails, top songs and top artists are still produced and written
\* to both destinations, and each top artist's image is the one derived from
\* the charts feed.
C14_GracefulDegradation ==
  DegradedRun =>
    \A d \in Dirs :
      /\ {<<d, "top_songs_us">>, <<d, "top_artists_us">>} \subseteq written
      /\ disk[<<d, "top_songs_us">>] = Snapshot("apple_music_rss", uniqueSongs)
      /\ disk[<<d, "top_artists_us">>] =
           Snapshot("apple_music_rss", Slice(DeriveArtists(uniqueSongs), TopArtistsN))

\* C14 witness: a full run whose lookups and catalog request all failed, with
\* an eligible top artist that has a charts image
C14_Witness ==
  /\ DegradedRun
  /\ mode = "all"
  /\ pc = "error_catalog_fetch"
  /\ \E i \in 1..Len(enriched) :
       Eligible(enriched[i].name) /\ enriched[i].image_url # NoImage

\* the artifacts a run in mode m is to produce
Produced(m) ==
  IF m = "wikidata" THEN {"artists_catalog"} ELSE ArtifactNames

\* the errors that are a failure to produce artifact name itself: of the
\* fetch that feeds it, or of one of its own writes
OwnErrors(name) ==
  IF name = "top_songs_us" THEN {"error_charts_fetch", "error_write_top_songs"}
  ELSE IF name = "top_artists_us" THEN {"error_charts_fetch", "error_write_top_artists"}
  ELSE IF name = "songs_catalog" THEN {"error_write_songs_catalog"}
  ELSE {"error_charts_fetch", "error_write_artists_catalog",
        "error_catalog_fetch", "error_write_wikidata_catalog"}

\* C15: independence of artifacts -- a failure to produce one artifact (its
\* fetcher failing or one of its file writes failing) does not prevent the
\* other artifacts of the same run from being written: when the run has ended,
\* every artifact of its mode has been written to both destinations unless
\* its own production failed.
C15_ArtifactsIndependent ==
  pc \in Exits =>
    \A name \in Produced(mode) :
      \/ pc \in OwnErrors(name)
      \/ \A d \in Dirs : <<d, name>> \in written

\* C15, second half: a step changes only the files it writes, so a failure
\* never alters what was written before
C15_OthersUntouched ==
  [][\A f \in Files : disk'[f] # disk[f] => f \in written']_vars

\* C16: every write of an artifact stamps it with a generation timestamp
\* computed at that write -- each file the run wrote (top artists rewritten
\* by the knowledge-graph image merge included) carries an updated-at value
\* taken during that run.
C16_FreshTimestamps ==
  \A f \in written : disk[f].updated_at = now

\* C16 without the files rewritten by the image merge of a run that did not
\* itself produce top artists
C16_FreshExceptMerge ==
  \A f \in written :
    (f[2] # "top_artists_us" \/ mode # "wikidata") => disk[f].updated_at = now

\* the document each file written by the run's charts and search stages was
\* written as
WrittenAs(name) ==
  IF name = "top_songs_us" THEN Snapshot("apple_music_rss", uniqueSongs)
  ELSE IF name = "top_artists_us" THEN Snapshot("apple_music_rss", enriched)
  ELSE IF name = "artists_catalog"
       THEN Snapshot("apple_music_rss", Slice(allArtists, CatalogN))
  ELSE Snapshot("itunes_search", catalogOut)

Repeated ==
  /\ pc \in Exits
  /\ prev.mode = mode
  /\ prev.exit = pc
  /\ prev.fetched = Fetched
  /\ prev.writes = writes

\* the item lists a file written by this run can hold when they are computed
\* from what this run fetched alone
FromFetched(f) ==
  IF f[2] = "top_songs_us" THEN {uniqueSongs}
  ELSE IF f[2] = "top_artists_us" THEN {enriched, MergeImages(enriched, wdArtists)}
  ELSE IF f[2] = "artists_catalog"
       THEN {IF disk[f].source = "wikidata" THEN wdArtists ELSE Slice(allArtists, CatalogN)}
  ELSE {catalogOut}

Idempotent == Repeated => ItemsOf(disk) = prev.items

KeyOfKind(s) ==
  IF s.albumId # 0 THEN <<"albumId", NumToStr(s.albumId)>>
  ELSE IF s.album # <<>> THEN <<"album", toLowerCase(s.album)>>
  ELSE <<"id", s.id>>

\* C19: album key priority -- the album key of a song is its albumId when
\* present, otherwise its lowercased album name when present, otherwise the
\* song's own id; keys of the three kinds never collide, so two songs by the
\* same artist that both lack album metadata are both kept unless they have
\* the same id.
C19_AlbumKeyPriority ==
  pc \in {"write_top_songs", "enrich"} =>
    \A i, j \in 1..Len(inputSongs) :
      LET a == inputSongs[i]
          b == inputSongs[j]
      IN /\ AlbumKey(a) = AlbumKey(b) <=> KeyOfKind(a) = KeyOfKind(b)
         /\ ( /\ ArtistKey(a) = ArtistKey(b)
              /\ a.albumId = 0 /\ a.album = <<>>
              /\ b.albumId = 0 /\ b.album = <<>>
              /\ a.id # b.id )
            => \E m, n \in 1..Len(uniqueSongs) :
                 m # n /\ uniqueSongs[m] = a /\ uniqueSongs[n] = b

\* C19 witness: two songs of one artist, with different ids and without
\* album metadata, were both kept
C19_Witness ==
  /\ pc = "write_top_songs"
  /\ \E i, j \in 1..Len(uniqueSongs) :
       LET a == uniqueSongs[i]
           b == uniqueSongs[j]
       IN /\ i # j
          /\ a.id # b.id
          /\ ArtistKey(a) = ArtistKey(b)
          /\ a.albumId = 0 /\ a.album = <<>>
          /\ b.albumId = 0 /\ b.album = <<>>

\* the requests of the image lookup that has just ended: none of them
\* answered with an image / one of them failed
NoImageFound ==
  \A i \in 1..Len(lookup) : lookup[i] \notin {<<"primary", "data">>, <<"entity", "data">>}

AnyRequestErrors == \E i \in 1..Len(lookup) : lookup[i][2] = "error"

EnrichPcs == {"enrich", "wd_primary", "wd_search", "wd_entity", "enrich_pause"}

\* the call never throws, and what it has pushed so far has the names of its
\* input in the same order; once it has returned, the same length
EnrichKeepsList ==
  /\ [](/\ Len(enriched) <= Len(artists10)
        /\ \A i \in 1..Len(enriched) : enriched[i].name = artists10[i].name)
  /\ [](pc \in {"write_artists_catalog", "error_write_top_artists"}
          => Len(enriched) = Len(artists10))
  /\ [][(pc \in EnrichPcs) =>
           (pc' \in EnrichPcs \cup {"write_artists_catalog", "error_write_top_artists"})]_vars

\* C20 as stated: enrichment miss or error keeps the image -- if the primary
\* query yields no result and the fallback yields no image, or any lookup
\* request errors, the call does not throw and the artist's output image_url
\* equals its input image_url; the output list has the same length, order
\* and names as the input.
C20_ErrorKeepsImage ==
  /\ [](pc = "enrich_pause" /\ (NoImageFound \/ AnyRequestErrors)
          => enriched[Len(enriched)].image_url = artists10[Len(enriched)].image_url)
  /\ EnrichKeepsList

\* C20 amended: if none of the lookup's requests yields an image, by a miss
\* or by an error, the artist's output image_url equals its input image_url;
\* the call never throws and keeps length, order and names.
C20_MissKeepsImage ==
  /\ [](pc = "enrich_pause" /\ NoImageFound
          => enriched[Len(enriched)].image_url = artists10[Len(enriched)].image_url)
  /\ EnrichKeepsList

\* C20 witness: the primary query failed, the search found an entity, the
\* entity had no image, and the artist kept the image it had
C20_Witness ==
  /\ pc = "enrich_pause"
  /\ lookup = << <<"primary", "error">>, <<"search", "data">>, <<"entity", "empty">> >>
  /\ enriched[Len(enriched)].image_url # NoImage
  /\ enriched[Len(enriched)].image_url = artists10[Len(enriched)].image_url

HasWhitespace(name) == \E i \in 1..Len(name) : name[i] \in WS

\* the artist the enrichment loop is at, or has just pushed
CurrentArtist ==
  artists10[IF pc = "enrich_pause" THEN Len(enriched) ELSE Len(enriched) + 1]

\* whether a lookup is in progress, or was made for the artist just pushed
LookedUp ==
  \/ pc \in {"wd_primary", "wd_search", "wd_entity"}
  \/ pc = "enrich_pause" /\ lookup # <<>>

\* C21 as stated: eligibility gate -- no lookup request is issued for an
\* artist whose name is a single ambiguous token (length < 3, no whitespace)
\* and that artist's image is left unchanged; for every other artist name a
\* lookup is attempted.
C21_GateShortSingleToken ==
  pc \in {"wd_primary", "wd_search", "wd_entity", "enrich_pause"} =>
    LET name == CurrentArtist.name
    IN /\ LookedUp <=> ~(Len(name) < 3 /\ ~HasWhitespace(name))
       /\ (pc = "enrich_pause" /\ ~LookedUp)
            => enriched[Len(enriched)].image_url = CurrentArtist.image_url

\* C21 amended: no lookup request is issued for an artist whose name is
\* shorter than 3 characters or holds no whitespace, and that artist's image
\* is left unchanged; for every other artist name a lookup is attempted.
C21_GateShortOrSingleToken ==
  pc \in {"wd_primary", "wd_search", "wd_entity", "enrich_pause"} =>
    LET name == CurrentArtist.name
    IN /\ LookedUp <=> ~(Len(name) < 3 \/ ~HasWhitespace(name))
       /\ (pc = "enrich_pause" /\ ~LookedUp)
            => enriched[Len(enriched)].image_url = CurrentArtist.image_url

\* C21 witness: an artist with a one-token name of three characters was
\* pushed without a lookup and kept the image it had
C21_Witness ==
  /\ pc = "enrich_pause"
  /\ lookup = <<>>
  /\ Len(CurrentArtist.name) >= 3
  /\ enriched[Len(enriched)].image_url # NoImage
  /\ enriched[Len(enriched)].image_url = CurrentArtist.image_url

\* a step that sends one request to a knowledge-graph service
KgRequest == Len(lookup') = Len(lookup) + 1

\* C22: politeness delay -- in every run, between any two successive requests
\* sent to the knowledge-graph services (catalog pages, primary image query,
\* fallback entity search, fallback property lookup) a pause step occurs; no
\* two such requests are issued back to back.
C22_PauseBetweenRequests ==
  [][KgRequest => lookup = <<>>]_vars

\* C22, the part that holds: a request that follows another without a pause
\* is a fallback request of the same artist's image lookup
C22_PauseBetweenLookups ==
  [][KgRequest => (lookup = <<>> \/ pc \in {"wd_search", "wd_entity"})]_vars

RECURSIVE RowsBefore(_)
\* rows returned by the first n pages of the call
RowsBefore(n) == IF n = 0 THEN 0 ELSE RowsBefore(n - 1) + pages[n].rows

\* every page so far came with at most as many rows as its limit asked for
LimitHonoured == \A i \in 1..Len(pages) : pages[i].rows <= pages[i].limit

MatchingImages(name) ==
  {wdArtists[k].image_url : k \in {k \in 1..Len(wdArtists) :
                                   toLowerCase(wdArtists[k].name) = toLowerCase(name)}}

\* the files the merge step has just written
MergeTargets ==
  IF Len(writes') > Len(writes)
  THEN WrittenBy("top_artists_us", writes'[Len(writes')])
  ELSE {}

\* C24: cross-source image merge -- when updateWikidataCatalog merges the
\* knowledge-graph entities into the existing top-artists list, the list
\* keeps the same length, order and names, an artist that already has an
\* image keeps it, and an artist lacking an image receives the image of the
\* matching entity (or stays null when none matches).
C24_MergeKeepsList ==
  [][(pc = "merge_top") =>
       \A f \in MergeTargets :
         LET old == disk[<<"archive", "top_artists_us">>].items
             new == disk'[f].items
         IN /\ Len(new) = Len(old)
            /\ \A i \in 1..Len(old) :
                 /\ new[i].name = old[i].name
                 /\ old[i].image_url # NoImage => new[i].image_url = old[i].image_url
                 /\ old[i].image_url = NoImage =>
                      IF MatchingImages(old[i].name) = {}
                      THEN new[i].image_url = NoImage
                      ELSE new[i].image_url \in MatchingImages(old[i].name)]_vars

\* C24 witness: a full run has merged the catalog into the list it wrote: an
\* artist without an image received one, and an artist with an image kept it
\* although an entity with another image matched its name
C24_Witness ==
  /\ pc = "exit_ok"
  /\ mode = "all"
  /\ LET new == disk[<<"archive", "top_artists_us">>].items
     IN /\ Len(new) = Len(enriched)
        /\ \E i \in 1..Len(new) :
             enriched[i].image_url = NoImage /\ new[i].image_url # NoImage
        /\ \E i \in 1..Len(new) :
             /\ enriched[i].image_url # NoImage
             /\ new[i].image_url = enriched[i].image_url
             /\ MatchingImages(new[i].name) # {}

\* the canonical form of a display name: lower-cased, trimmed, whitespace
\* runs collapsed
CanonicalForm(name) == toLowerCase(normalizeArtistName(name))

\* C25: cross-source matching is by canonicalized display name -- a top artist
\* lacking an image receives a knowledge-graph entity's image whenever the
\* artist's name and the entity's label have the same canonical form (equal
\* after lowercasing, trimming and collapsing whitespace), and never
\* otherwise.
C25_MatchByCanonicalName ==
  [][(pc = "merge_top") =>
       \A f \in MergeTargets :
         LET old == disk[<<"archive", "top_artists_us">>].items
             new == disk'[f].items
         IN \A i \in 1..Len(old) :
              old[i].image_url = NoImage =>
                LET same == {k \in 1..Len(wdArtists) :
                               CanonicalForm(wdArtists[k].name) = CanonicalForm(old[i].name)}
                IN IF same = {} THEN new[i].image_url = NoImage
                   ELSE \E k \in same : new[i].image_url = wdArtists[k].image_url]_vars

\* C25, what holds: the same with the names compared after lower-casing only
C25_MatchByLowerCasedName ==
  [][(pc = "merge_top") =>
       \A f \in MergeTargets :
         LET old == disk[<<"archive", "top_artists_us">>].items
             new == disk'[f].items
         IN \A i \in 1..Len(old) :
              old[i].image_url = NoImage =>
                LET same == {k \in 1..Len(wdArtists) :
                               toLowerCase(wdArtists[k].name) = toLowerCase(old[i].name)}
                IN IF same = {} THEN new[i].image_url = NoImage
                   ELSE \E k \in same : new[i].image_url = wdArtists[k].image_url]_vars

\* the song of the feed a top song was made from
FeedSong(s) == [id |-> s.id, title |-> s.title, artist |-> s.artist, image |-> s.image]

\* C26: optional lookup failures never abort the charts pipeline -- if the
\* batched album-metadata lookup fails, every song gets absent albumId and
\* album, its primary artist falls back to its raw credit, and
\* updateAppleTopSongs goes on to write top songs, top artists and the artist
\* catalog; with pairwise distinct song ids the top-songs list then equals
\* the feed's songs in feed order.
C26_LookupFailureNotFatal ==
  /\ [][LookupThrows =>
          /\ pc' = "write_top_songs"
          /\ Len(inputSongs') = Len(songs)
          /\ \A i \in 1..Len(songs) :
               /\ inputSongs'[i].albumId = 0
               /\ inputSongs'[i].album = <<>>
               /\ inputSongs'[i].primaryArtist = songs[i].artist
          /\ (\A i, j \in 1..Len(songs) : i # j => songs[i].id # songs[j].id)
               => /\ Len(uniqueSongs') = Len(songs)
                  /\ \A i \in 1..Len(songs) : FeedSong(uniqueSongs'[i]) = songs[i]]_vars
  /\ [][(pc \in {"write_top_songs", "enrich", "wd_primary", "wd_search", "wd_entity",
                 "enrich_pause", "write_artists_catalog"})
          => pc' \notin FetchErrors]_vars
  /\ [](pc = "search_seed" =>
          \A d \in Dirs :
            /\ disk[<<d, "top_songs_us">>] = Snapshot("apple_music_rss", uniqueSongs)
            /\ disk[<<d, "top_artists_us">>] = Snapshot("apple_music_rss", enriched)
            /\ disk[<<d, "artists_catalog">>]
                 = Snapshot("apple_music_rss", Slice(allArtists, CatalogN)))

\* C26 witness: the lookup gave nothing for two songs of one artist with
\* different ids; both are in the top songs written, in feed order, and top
\* artists and the artist catalog have been written too
C26_Witness ==
  /\ pc = "search_seed"
  /\ Len(songs) = 2
  /\ songs[1].id # songs[2].id
  /\ songs[1].artist = songs[2].artist
  /\ \A i \in 1..2 : inputSongs[i].albumId = 0 /\ inputSongs[i].album = <<>>
  /\ disk[<<"archive", "top_songs_us">>].items = uniqueSongs
  /\ <<FeedSong(uniqueSongs[1]), FeedSong(uniqueSongs[2])>> = songs
  /\ {<<"public", "top_artists_us">>, <<"public", "artists_catalog">>} \subseteq written

\* the stage a position belongs to: 0 before the first, 1 charts fetch and
\* top-songs write (the derivation of the artists ends it), 3 enrichment and
\* the top-artists and artist-catalog writes, 4 song-search catalog,
\* 5 knowledge-graph catalog, 6 the process has exited
StageOf(p) ==
  IF p = "main" THEN 0
  ELSE IF p \in {"start", "lookup", "write_top_songs"} THEN 1
  ELSE IF p \in EnrichPcs \cup {"write_artists_catalog"} THEN 3
  ELSE IF p = "search_seed" THEN 4
  ELSE IF p \in {"wd_page", "wd_page_pause", "write_wd_catalog", "merge_top"} THEN 5
  ELSE 6

\* the stage that follows stage n in a run of mode m (6: none)
StageAfter(n, m) ==
  IF n = 0 THEN (IF m = "wikidata" THEN 5 ELSE 1)
  ELSE IF n = 1 THEN 3
  ELSE IF n = 3 THEN 4
  ELSE IF n = 4 THEN (IF m = "apple" THEN 6 ELSE 5)
  ELSE 6

\* C27: stage order -- in a full run the stages execute strictly one after
\* another in the order charts fetch and top-songs write, artist derivation,
\* image enrichment and top-artists write, song-search catalog,
\* knowledge-graph catalog; no stage starts before the previous one has
\* finished, and the 'apple' mode runs only the first four while the
\* 'wikidata' mode runs only the last.
C27_StageOrder ==
  /\ [][(pc' # "main") =>
          /\ mode' = mode
          /\ StageOf(pc') \in {StageOf(pc), StageAfter(StageOf(pc), mode), 6}
          /\ pc' = "exit_ok" => StageAfter(StageOf(pc), mode) = 6
          /\ IF StageOf(pc) = 1 /\ StageOf(pc') = 3
             THEN allArtists' = DeriveArtists(uniqueSongs)
             ELSE allArtists' = allArtists]_vars
  /\ [](StageOf(pc) \in {0, 1} => allArtists = <<>>)
  /\ [](mode = "apple" => StageOf(pc) # 5)
  /\ [](mode = "wikidata" => StageOf(pc) \in {0, 5, 6})
  /\ [](StageOf(pc) = 3 => \A d \in Dirs : <<d, "top_songs_us">> \in written)
  /\ [](StageOf(pc) = 4 =>
          \A d \in Dirs : {<<d, "top_artists_us">>, <<d, "artists_catalog">>} \subseteq written)
  /\ [](StageOf(pc) = 5 /\ mode = "all" =>
          \A d \in Dirs : <<d, "songs_catalog">> \in written)

\* C27 witness: a full run has gone through every stage and ended normally
C27_Witness ==
  /\ mode = "all"
  /\ pc = "exit_ok"
  /\ allArtists # <<>>
  /\ catalogOut # <<>>
  /\ wdArtists # <<>>
  /\ \A f \in Files : f \in written

\* C28: untouched files stay untouched -- a run in 'wikidata' mode never
\* writes the top-songs or song-catalog artifacts; their content and
\* timestamps after the run equal those before it, whether the run succeeds
\* or fails.
C28_WikidataRunLeavesSongFiles ==
  /\ [][(mode = "wikidata") =>
          \A d \in Dirs : \A name \in {"top_songs_us", "songs_catalog"} :
            disk'[<<d, name>>] = disk[<<d, name>>]]_vars
  /\ [](mode = "wikidata" =>
          \A d \in Dirs : \A name \in {"top_songs_us", "songs_catalog"} :
            <<d, name>> \notin written)

\* C28 witness: a 'wikidata' run after a full run has written the catalog and
\* ended, and the song files are there with the earlier run's timestamp
C28_Witness ==
  /\ mode = "wikidata"
  /\ pc \in Exits
  /\ <<"archive", "artists_catalog">> \in written
  /\ disk[<<"archive", "artists_catalog">>].updated_at = now
  /\ \A d \in Dirs : \A name \in {"top_songs_us", "songs_catalog"} :
       /\ disk[<<d, name>>] # Absent
       /\ disk[<<d, name>>].items # <<>>
       /\ disk[<<d, name>>].updated_at < now

\* the credit is one word once trimmed: no whitespace inside, none of the
\* separator characters, no parenthesis, no dash
OneWord(credit) ==
  LET t == trim(credit)
  IN /\ t # <<>>
     /\ \A i \in 1..Len(t) :
          t[i] \notin WS \cup Dashes \cup {"&", ",", "/", Pipe, "(", ")", "."}

\* the letters f, e, a, t in a row, in any case
ContainsFeat(credit) ==
  \E i \in 1..Len(credit) : LitAt(credit, i, <<"f","e","a","t">>, TRUE)

\* C29: a credit string that contains none of the listed separators as a
\* standalone separator (for instance a single artist name that merely
\* contains the letters 'feat', 'and', 'with' or 'x' inside a word) is
\* returned by splitCredits as a one-element list holding the whole trimmed
\* name.
C29_WordsStayWhole ==
  (pc = "done" /\ OneWord(raw)) => out = <<trim(raw)>>

\* C29, what holds: the same for the one-word credits without the letters
\* 'feat' in them
C29_WordsWithoutFeatStayWhole ==
  (pc = "done" /\ OneWord(raw) /\ ~ContainsFeat(raw)) => out = <<trim(raw)>>

\* C30: homonym merge is first-seen-wins -- when several knowledge-graph
\* entities in the fetched catalog share the same lowercased label, a top
\* artist with that name and no image receives the image of the first such
\* entity in fetch order.
C30_HomonymFirstWins ==
  [][(pc = "merge_top") =>
       \A f \in MergeTargets :
         LET old == disk[<<"archive", "top_artists_us">>].items
             new == disk'[f].items
         IN \A i \in 1..Len(old) :
              old[i].image_url = NoImage =>
                LET same == {k \in 1..Len(wdArtists) :
                               toLowerCase(wdArtists[k].name) = toLowerCase(old[i].name)}
                IN Cardinality(same) > 1 =>
                     new[i].image_url =
                       wdArtists[CHOOSE k \in same : \A j \in same : k <= j].image_url]_vars

\* C30, what holds: the artist receives the image of the last such entity in
\* fetch order
C30_HomonymLastWins ==
  [][(pc = "merge_top") =>
       \A f \in MergeTargets :
         LET old == disk[<<"archive", "top_artists_us">>].items
             new == disk'[f].items
         IN \A i \in 1..Len(old) :
              old[i].image_url = NoImage =>
                LET same == {k \in 1..Len(wdArtists) :
                               toLowerCase(wdArtists[k].name) = toLowerCase(old[i].name)}
                IN Cardinality(same) > 1 =>
                     new[i].image_url =
                       wdArtists[CHOOSE k \in same : \A j \in same : j <= k].image_url]_vars
====
